---- MODULE Spec2Model ----
(***************************************************************************)
(* Verification model of the website business-profile extractor            *)
(* (website_bot.py: discovery, page selection, fetching, chunking, RAG     *)
(* extraction; api.py: the /api/scrape endpoint and its merge step).       *)
(*                                                                         *)
(* A Python string is a sequence of atoms.  An atom is a one-character     *)
(* string, or an opaque fragment that the code only ever matches as a      *)
(* whole (an e-mail address, a domain name).  A Python list is a sequence. *)
(* A Python value whose type matters (the fields of the profile) is a      *)
(* tagged record, see Str / List / None.                                   *)
(***************************************************************************)
EXTENDS Integers, Sequences, FiniteSets, TLC

VARIABLES
    \* ---- module configuration (website_bot.py:19-46) ----
    FIRECRAWL_KEY, \* TRUE iff FIRECRAWL_API_KEY is set
    chroma_client, \* TRUE iff PersistentClient(...) succeeded (else None)
    \* ---- select_main_pages(urls, base) ----
    sel_pc,        \* "idle" | "call" | "done"
    sel_urls,      \* argument urls: list of URL strings
    sel_base,      \* argument base
    sel_pages,     \* returned list
    \* ---- chunk_text(text, size, overlap) ----
    ch_pc,         \* "idle" | "call" | "done"
    ch_text,       \* argument text
    ch_size,       \* argument size (words per chunk)
    ch_overlap,    \* argument overlap
    ch_chunks,     \* returned list of strings
    \* ---- fetch_page(url) ----
    fp_pc,         \* "idle" | "tier1" | "tier2" | "done" | "raised"
    fp_url,        \* argument url
    fp_get,        \* what requests.get did (tier 1)
    fp_post,       \* what the render service did (tier 2)
    fp_posts,      \* number of calls made to the render service
    fp_result,     \* returned html
    \* ---- get_site_urls(base) ----
    ds_pc,         \* "idle" | "sitemap" | "map" | "done"
    ds_base,       \* argument base
    ds_web,        \* what the site and the map service answer
    ds_map_invoked,\* TRUE once get_urls_from_firecrawl was called
    ds_tier,       \* which tier produced the result
    ds_result,     \* returned list of URLs
    \* ---- rag_extract(chunks, site_url) ----
    rg_pc,         \* "idle" | "start" | "index" | "llm" | "done" | "raised"
    rg_args,       \* argument chunks, as passed
    rg_site,       \* argument site_url
    rg_chunks,     \* local chunks (rebound at line 293)
    rg_b,          \* loop variable b of the indexing loop
    rg_retrieval,  \* what the retrieval step did
    rg_context,    \* local context
    rg_result,     \* returned value
    \* ---- scrape(request) (api.py) ----
    sc_pc,         \* "idle" | "start" | "discover" | "pages" | "rag" | "done"
    sc_req,        \* request.url
    site_url,      \* local site_url
    main_pages,    \* local main_pages
    sc_page,       \* position of the page loop in main_pages (from 1)
    all_social,    \* local all_social
    all_text,      \* local all_text
    sc_rag,        \* the value rag_extract returned, before the merge
    sc_response,   \* the HTTP response
    \* ---- the site's collection and the rag_extract runs that index it ----
    coll,          \* the stored documents of the site's collection, by id
    ix_pc,         \* per run: "idle" | "start" | "index" | "query" | "fallback"
    ix_chunks,     \* per run: local chunks
    ix_b           \* per run: loop variable b of the indexing loop

cfg_vars == <<FIRECRAWL_KEY, chroma_client>>
sel_vars == <<sel_pc, sel_urls, sel_base, sel_pages>>
ch_vars  == <<ch_pc, ch_text, ch_size, ch_overlap, ch_chunks>>
fp_vars  == <<fp_pc, fp_url, fp_get, fp_post, fp_posts, fp_result>>
ds_vars  == <<ds_pc, ds_base, ds_web, ds_map_invoked, ds_tier, ds_result>>
rg_vars  == <<rg_pc, rg_args, rg_site, rg_chunks, rg_b, rg_retrieval,
              rg_context, rg_result>>
sc_vars  == <<sc_pc, sc_req, site_url, main_pages, sc_page, all_social,
              all_text, sc_rag, sc_response>>
ix_vars  == <<coll, ix_pc, ix_chunks, ix_b>>

vars == <<FIRECRAWL_KEY, chroma_client,
          sel_pc, sel_urls, sel_base, sel_pages,
          ch_pc, ch_text, ch_size, ch_overlap, ch_chunks,
          fp_pc, fp_url, fp_get, fp_post, fp_posts, fp_result,
          ds_pc, ds_base, ds_web, ds_map_invoked, ds_tier, ds_result,
          rg_pc, rg_args, rg_site, rg_chunks, rg_b, rg_retrieval,
          rg_context, rg_result,
          sc_pc, sc_req, site_url, main_pages, sc_page, all_social,
          all_text, sc_rag, sc_response,
          coll, ix_pc, ix_chunks, ix_b>>

(***************************************************************************)
(* Python built-ins used by the code                                       *)
(***************************************************************************)

\* str.lower() on one atom (the atoms of the model that have capitals)
LowerChar(c) ==
    CASE c = "A" -> "a"
      [] c = "C" -> "c"
      [] c = "Facebook.com" -> "facebook.com"
      [] c = "Acme" -> "acme"
      [] OTHER   -> c

\* str.lower()
Lower(s) == [i \in 1..Len(s) |-> LowerChar(s[i])]

\* the Python operator  `t in s`  on strings
Contains(s, t) ==
    \E i \in 0..(Len(s) - Len(t)) : SubSeq(s, i + 1, i + Len(t)) = t

\* str.startswith(t)
StartsWith(s, t) == Len(s) >= Len(t) /\ SubSeq(s, 1, Len(t)) = t

\* the Python operator  `x in lst`  on lists
InList(x, lst) == \E i \in 1..Len(lst) : lst[i] = x

\* str.rstrip("/")
RECURSIVE RStripSlash(_)
RStripSlash(s) ==
    IF Len(s) > 0 /\ s[Len(s)] = "/"
    THEN RStripSlash(SubSeq(s, 1, Len(s) - 1))
    ELSE s

\* lst[:n]
Take(lst, n) == SubSeq(lst, 1, IF Len(lst) < n THEN Len(lst) ELSE n)

\* lst[-n:]
TakeLast(lst, n) ==
    SubSeq(lst, (IF Len(lst) < n THEN 1 ELSE Len(lst) - n + 1), Len(lst))

\* characters matched by the regex class \s
IsWs(c) == c \in {" ", "\n", "\t"}

\* characters matched by the regex class [.!?]
IsPunct(c) == c \in {".", "!", "?"}

\* re.sub(r"\s+", " ", t): prevWs tells that the previous character was
\* whitespace already replaced
RECURSIVE CollapseWs(_, _)
CollapseWs(s, prevWs) ==
    IF s = <<>> THEN <<>>
    ELSE IF IsWs(Head(s))
         THEN (IF prevWs THEN <<>> ELSE <<" ">>) \o CollapseWs(Tail(s), TRUE)
         ELSE <<Head(s)>> \o CollapseWs(Tail(s), FALSE)

RECURSIVE LStrip(_)
LStrip(s) == IF s # <<>> /\ IsWs(Head(s)) THEN LStrip(Tail(s)) ELSE s

RECURSIVE RStrip(_)
RStrip(s) ==
    IF s # <<>> /\ IsWs(s[Len(s)]) THEN RStrip(SubSeq(s, 1, Len(s) - 1)) ELSE s

\* str.strip()
Strip(s) == RStrip(LStrip(s))

\* str.split(): the whitespace-separated words, no empty word
RECURSIVE SplitAcc(_, _)
SplitAcc(s, cur) ==
    IF s = <<>> THEN (IF cur = <<>> THEN <<>> ELSE <<cur>>)
    ELSE IF IsWs(Head(s))
         THEN (IF cur = <<>> THEN <<>> ELSE <<cur>>) \o SplitAcc(Tail(s), <<>>)
         ELSE SplitAcc(Tail(s), Append(cur, Head(s)))

SplitWords(s) == SplitAcc(s, <<>>)

\* " ".join(lst)
RECURSIVE JoinSp(_)
JoinSp(lst) ==
    IF lst = <<>> THEN <<>>
    ELSE IF Len(lst) = 1 THEN lst[1]
    ELSE lst[1] \o <<" ">> \o JoinSp(Tail(lst))

\* the elements of a list
SetOf(lst) == { lst[i] : i \in 1..Len(lst) }

\* list(set(...)): the elements of S once each, in an order the hash
\* function decides
ListsOfSet(S) ==
    { s \in [1..Cardinality(S) -> S] : SetOf(s) = S }

KwAbout   == <<"a", "b", "o", "u", "t">>
KwContact == <<"c", "o", "n", "t", "a", "c", "t">>

(***************************************************************************)
(* select_main_pages (website_bot.py:226-238)                              *)
(***************************************************************************)

\* the loop of select_main_pages: every URL is appended once per keyword it
\* contains
RECURSIVE KeywordPages(_)
KeywordPages(urls) ==
    IF urls = <<>> THEN <<>>
    ELSE LET u  == Head(urls)
             ul == Lower(u)
         IN  (IF Contains(ul, KwAbout) THEN <<u>> ELSE <<>>)
             \o (IF Contains(ul, KwContact) THEN <<u>> ELSE <<>>)
             \o KeywordPages(Tail(urls))

MaxPages == 3

select_main_pages(urls, base) ==
    LET b     == RStripSlash(base)
        pages == KeywordPages(urls)
        full  == IF ~InList(b, pages) THEN <<b>> \o pages ELSE pages
    IN  Take(full, MaxPages)

(***************************************************************************)
(* clean_text and chunk_text (website_bot.py:56-57, 144-161)               *)
(***************************************************************************)
clean_text(t) == Strip(CollapseWs(t, FALSE))

\* re.split(r'(?<=[.!?])\s+', text): cut at every whitespace run that
\* follows a sentence-ending character; prev is the character before s
RECURSIVE SentAcc(_, _, _)
SentAcc(s, cur, prev) ==
    IF s = <<>> THEN <<cur>>
    ELSE IF IsWs(Head(s)) /\ IsPunct(prev)
         THEN <<cur>> \o SentAcc(LStrip(s), <<>>, " ")
         ELSE SentAcc(Tail(s), Append(cur, Head(s)), Head(s))

SplitSentences(text) == SentAcc(text, <<>>, " ")

\* the for loop of chunk_text and the final append
RECURSIVE ChunkLoop(_, _, _)
ChunkLoop(sentences, current, size) ==
    IF sentences = <<>>
    THEN (IF current # <<>> THEN <<Strip(current)>> ELSE <<>>)
    ELSE LET s == Head(sentences)
         IN  IF Len(SplitWords(current)) + Len(SplitWords(s)) <= size
             THEN ChunkLoop(Tail(sentences), current \o <<" ">> \o s, size)
             ELSE <<Strip(current)>> \o ChunkLoop(Tail(sentences), s, size)

CHUNK_SIZE    == 180
CHUNK_OVERLAP == 30

\* the parameter overlap is accepted and never read by the code
chunk_text(text, size, overlap) ==
    LET t == clean_text(text)
    IN  IF t = <<>> THEN <<>>
        ELSE ChunkLoop(SplitSentences(t), <<>>, size)

(***************************************************************************)
(* fetch_page (website_bot.py:60-89)                                       *)
(*                                                                         *)
(* An HTML document is the record of what the code reads from it: its      *)
(* length in characters, the href of its anchors in document order, and    *)
(* its visible text.                                                       *)
(***************************************************************************)
EmptyHtml == [len |-> 0, hrefs |-> <<>>, text |-> <<>>]

MinBodyLen == 200

\* Tier1Body accepting any 200 response, whatever its length
Tier1Body_AnyLength(g) ==
    IF g.kind = "exc" THEN "exc"
    ELSE IF g.status = 200 THEN "return"
    ELSE "fall"

\* the body of the first try block, given what requests.get did:
\* "return" (return r.text), "fall" (leave the block), "exc" (an exception)
Tier1Body(g) ==
    IF g.kind = "exc" THEN "exc"
    ELSE IF g.status = 200 /\ g.text.len > MinBodyLen THEN "return"
    ELSE "fall"

\* the body of the second try block, given what requests.post did: the
\* network call fails, fc.json() fails, the JSON value has no .get, or
\* .get("html", "") returns
Tier2Body(p) ==
    IF p.kind \in {"exc", "notjson", "notdict"} THEN "exc" ELSE "return"

\* fc.json().get("html", "")
Tier2Html(p) == IF p.kind = "html" THEN p.html ELSE EmptyHtml

\* `except: pass`
ExceptPass(outcome) == IF outcome = "exc" THEN "fall" ELSE outcome

(***************************************************************************)
(* get_urls_from_sitemap, get_urls_from_firecrawl, get_site_urls           *)
(* (website_bot.py:164-223)                                                *)
(*                                                                         *)
(* A sitemap document is the record of what the parser finds in it: kind   *)
(* "index" when its <loc> elements sit in <sitemap> elements, and the text *)
(* of its <loc> elements in document order.                                *)
(***************************************************************************)
\* the candidate paths, joined to the base URL by the code
sitemap_list == <<"/sitemap.xml", "/sitemap_index.xml", "/sitemap-index.xml">>

\* lines 181-190: the <loc> of every sub-sitemap is fetched; a fetch that
\* raises is skipped, any response (whatever its status) is parsed
RECURSIVE SubSitemapLocs(_, _)
SubSitemapLocs(subs, web) ==
    IF subs = <<>> THEN <<>>
    ELSE LET sub_r == web.sub[Head(subs)]
         IN  (IF sub_r.kind = "exc" THEN <<>> ELSE sub_r.doc.locs)
             \o SubSitemapLocs(Tail(subs), web)

\* the for loop of get_urls_from_sitemap from path i on: exc is TRUE when a
\* requests.get of a candidate path raised, which leaves the loop
RECURSIVE SitemapLoop(_, _, _)
SitemapLoop(i, urls, web) ==
    IF i > Len(sitemap_list) THEN [exc |-> FALSE, urls |-> urls]
    ELSE LET r == web.paths[i]
         IN  IF r.kind = "exc" THEN [exc |-> TRUE, urls |-> urls]
             ELSE IF r.status # 200 THEN SitemapLoop(i + 1, urls, web)
             ELSE SitemapLoop(i + 1,
                     urls \o (IF r.doc.kind = "index"
                              THEN SubSitemapLocs(r.doc.locs, web) ELSE <<>>)
                          \o r.doc.locs,
                     web)

\* the lists get_urls_from_sitemap can return: [] from the outer except,
\* else list(set(urls))
get_urls_from_sitemap(web) ==
    LET r == SitemapLoop(1, <<>>, web)
    IN  IF r.exc THEN {<<>>} ELSE ListsOfSet(SetOf(r.urls))

\* get_urls_from_firecrawl: [] without a key or when anything raises
get_urls_from_firecrawl(key, m) ==
    IF ~key THEN <<>>
    ELSE IF m.kind = "links" THEN m.links
    ELSE <<>>

(***************************************************************************)
(* The fallback extractors (website_bot.py:92-141)                         *)
(*                                                                         *)
(* The matches of the three regular expressions are atoms of the text:     *)
(* the tables below say which atoms each expression matches.               *)
(***************************************************************************)
Platforms == {"Facebook", "Instagram", "LinkedIn", "Twitter / X"}

\* the domain names looked for in the href of an anchor, per platform
SocialDomains(k) ==
    CASE k = "Facebook"  -> {"facebook.com"}
      [] k = "Instagram" -> {"instagram.com"}
      [] k = "LinkedIn"  -> {"linkedin.com"}
      [] OTHER           -> {"twitter.com", "x.com"}

NoSocial == [k \in Platforms |-> <<>>]

\* the loop over the anchors: the first href per platform is kept,
\* lower-cased
RECURSIVE SocialLoop(_, _)
SocialLoop(hrefs, social) ==
    IF hrefs = <<>> THEN social
    ELSE LET href == Lower(Head(hrefs))
         IN  SocialLoop(Tail(hrefs),
                 [k \in Platforms |->
                     IF /\ \E d \in SocialDomains(k) : Contains(href, <<d>>)
                        /\ social[k] = <<>>
                     THEN href ELSE social[k]])

extract_social_links_from_html(html) == SocialLoop(html.hrefs, NoSocial)

EmailAtoms == {"info@acme.io", "hr@acme.io"}
PhoneAtoms == {"+1 555 0100 100"}

\* the atoms matched by the address pattern (1-4 digits, then 20-200
\* characters), and those of them that pass each test of the loop
AddressCandidates ==
    {"12 Main Street, Springfield, Illinois",
     "2017 Category Skin Care Clinical",
     "100 200 300 400 500 600 700 Road"}
WithAddressKeyword == {"12 Main Street, Springfield, Illinois",
                       "100 200 300 400 500 600 700 Road"}
WithYear           == {"2017 Category Skin Care Clinical"}
WithLowDigitRatio  == {"12 Main Street, Springfield, Illinois",
                       "2017 Category Skin Care Clinical"}

\* set(re.findall(...)): the set of matches, each a string
extract_all_emails(text) == { <<a>> : a \in SetOf(text) \cap EmailAtoms }

extract_all_phones(text) == { <<a>> : a \in SetOf(text) \cap PhoneAtoms }

extract_all_addresses(text) ==
    IF text = <<>> THEN {}
    ELSE { <<a>> : a \in { c \in SetOf(text) \cap AddressCandidates :
                             /\ c \in WithAddressKeyword
                             /\ c \notin WithYear
                             /\ c \in WithLowDigitRatio } }

(***************************************************************************)
(* Python values whose type matters                                        *)
(***************************************************************************)
Str(s)  == [t |-> "str",  v |-> s]     \* s: a string
List(l) == [t |-> "list", v |-> l]     \* l: a list of strings
Dict(d) == [t |-> "dict", v |-> d]     \* d: a function from keys to values
None    == [t |-> "none", v |-> <<>>]

\* bool(x)
Truthy(x) == x.t # "none" /\ x.v # <<>>

\* d.get(k)
Get(d, k) == IF k \in DOMAIN d THEN d[k] ELSE None

\* d[k] = x
Put(d, k, x) == [j \in (DOMAIN d) \cup {k} |-> IF j = k THEN x ELSE d[j]]

(***************************************************************************)
(* rag_extract (website_bot.py:249-403)                                    *)
(***************************************************************************)
BATCH     == 8
N_RESULTS == 6
TOP_K     == 6

\* line 293: [str(c).strip() for c in chunks if str(c).strip()]
RECURSIVE CleanChunks(_)
CleanChunks(chunks) ==
    IF chunks = <<>> THEN <<>>
    ELSE (IF Strip(Head(chunks)) # <<>> THEN <<Strip(Head(chunks))>> ELSE <<>>)
         \o CleanChunks(Tail(chunks))

\* " ".join(chunks[:6])
FallbackContext(chunks) == JoinSp(Take(chunks, TOP_K))

\* lines 316-321, for a query that returned: docs_list is a list with one
\* list of documents per query text
QueryContext(q, chunks) ==
    LET docs_list == IF q.has_documents THEN q.documents ELSE <<>>
    IN  IF docs_list # <<>>
        THEN (IF docs_list[1] # <<>> THEN JoinSp(docs_list[1]) ELSE <<>>)
        ELSE FallbackContext(chunks)

\* how the retrieval step ended, for a query that returned
QueryKind(q) ==
    IF ~q.has_documents THEN "no_documents_key"
    ELSE IF q.documents = <<>> THEN "documents_empty"
    ELSE IF q.documents[1] = <<>> THEN "empty_result"
    ELSE "docs"

\* the text of the reply of the language model is a string whose atoms are
\* code-fence markers, white space, prose, and whole JSON documents; a JSON
\* document is named by its atom and JsonTable gives its value
\* the atoms that stand for the markers of a fenced code block, with and
\* without the language tag json
FenceAtoms == {"[fence:json]", "[fence]"}

\* line 398: re.sub of both fence markers by the empty string
StripFences(out) == SelectSeq(out, LAMBDA a : a \notin FenceAtoms)

\* json.loads(out) with the table of documents: ok is FALSE when it raises
json_loads(out, table) ==
    LET t == Strip(out)
    IN  IF Len(t) = 1 /\ t[1] \in DOMAIN table
        THEN [ok |-> TRUE, value |-> table[t[1]]]
        ELSE [ok |-> FALSE, value |-> None]

\* lines 397-403
ParseReply(content, table) ==
    LET out == StripFences(content)
        r   == json_loads(out, table)
    IN  IF r.ok THEN r.value ELSE Dict([k \in {"raw"} |-> Str(out)])

(***************************************************************************)
(* scrape: normalisation of the URL, merge and defaults (api.py:37-113)    *)
(***************************************************************************)
HttpPrefix  == <<"h", "t", "t", "p">>
HttpsScheme == <<"h", "t", "t", "p", "s", ":", "/", "/">>

\* lines 41-42
NormalizeUrl(u) == IF ~StartsWith(u, HttpPrefix) THEN HttpsScheme \o u ELSE u

\* lines 63-65: the first non-empty link per platform over the pages
MergePageSocial(social, page_social) ==
    [k \in Platforms |->
        IF page_social[k] # <<>> /\ social[k] = <<>>
        THEN page_social[k] ELSE social[k]]

\* FallbackMerge calling the fallback only when the key is missing
FallbackMerge_OnlyIfAbsent(d, k, fb) ==
    IF k \notin DOMAIN d THEN Put(d, k, List(fb)) ELSE d

\* lines 82-89: the fallback list fb replaces a missing or empty value
FallbackMerge(d, k, fb) ==
    IF ~Truthy(Get(d, k)) THEN Put(d, k, List(fb)) ELSE d

\* SocialMerge keeping a non-empty value of the language model
SocialMerge_RetrievalFirst(d, social) ==
    [j \in (DOMAIN d) \cup { k \in Platforms : social[k] # <<>> } |->
        IF j \in Platforms /\ social[j] # <<>> /\ ~Truthy(Get(d, j))
        THEN Str(social[j]) ELSE d[j]]

\* lines 92-94: every non-empty link from the anchors is written
SocialMerge(d, social) ==
    [j \in (DOMAIN d) \cup { k \in Platforms : social[k] # <<>> } |->
        IF j \in Platforms /\ social[j] # <<>>
        THEN Str(social[j]) ELSE d[j]]

\* lines 97-110
Defaults(url) ==
    [k \in {"Business Name", "About Us", "Main Services", "Description",
            "Email", "Phone", "Address", "Facebook", "Instagram",
            "LinkedIn", "Twitter / X", "URL"} |->
        IF k \in {"Main Services", "Email", "Phone", "Address"} THEN List(<<>>)
        ELSE IF k = "URL" THEN Str(url)
        ELSE Str(<<>>)]

\* lines 111-113
ApplyDefaults(d, defaults) ==
    [j \in (DOMAIN d) \cup (DOMAIN defaults) |->
        IF j \in DOMAIN defaults /\ (j \notin DOMAIN d \/ ~Truthy(d[j]))
        THEN defaults[j] ELSE d[j]]

\* lines 81-113, for the lists em, ph, ad the fallback extractors give
MergeProfile(d, em, ph, ad, social, url) ==
    ApplyDefaults(
        SocialMerge(
            FallbackMerge(FallbackMerge(FallbackMerge(d, "Email", em),
                                        "Phone", ph),
                          "Address", ad),
            social),
        Defaults(url))

(***************************************************************************)
(* Inputs: URLs                                                            *)
(***************************************************************************)
Https     == <<"h", "t", "t", "p", "s", ":", "/", "/">>
HostPlain == Https \o <<"s", ".", "i", "o">>
HostAbout == Https \o <<"a", "b", "o", "u", "t", ".", "i", "o">>

U_home         == HostPlain
U_homeSlash    == HostPlain \o <<"/">>
U_about        == HostPlain \o <<"/">> \o KwAbout
U_AboutCaps    == HostPlain \o <<"/", "A", "b", "o", "u", "t">>
U_contact      == HostPlain \o <<"/">> \o KwContact
U_aboutContact == HostPlain \o <<"/">> \o KwAbout \o <<"-">> \o KwContact
U_blog         == HostPlain \o <<"/", "b">>
U_kwHome       == HostAbout
U_kwTeam       == HostAbout \o <<"/", "t">>

SelUrlPool == {U_home, U_homeSlash, U_about, U_AboutCaps, U_contact,
               U_aboutContact, U_blog, U_kwHome, U_kwTeam}

SelBasePool == {U_home, U_homeSlash, U_kwHome}

MaxUrls == 3

\* lists of pairwise distinct elements of S, of length <= n
DistinctSeqs(S, n) ==
    UNION { { s \in [1..k -> S] : \A i, j \in 1..k : i # j => s[i] # s[j] }
            : k \in 0..n }

(***************************************************************************)
(* Inputs: texts to chunk                                                  *)
(***************************************************************************)
TextAlphabet == {"a", "b", ".", " ", "\n"}
MaxTextLen   == 6
MaxChunkSize == 3

TextsUpTo(n) == UNION { [1..k -> TextAlphabet] : k \in 0..n }

(***************************************************************************)
(* Inputs: documents and what the network does                             *)
(***************************************************************************)
\* a page of n characters with no anchor and no text
Body(n) == [len |-> n, hrefs |-> <<>>, text |-> <<>>]

FetchSlack == 1

BodyLens == {0} \cup ((MinBodyLen - FetchSlack)..(MinBodyLen + FetchSlack))

FetchDocs == { Body(n) : n \in BodyLens }

\* requests.get raises, or answers with a status and a body
GetOutcomes(docs) ==
    {[kind |-> "exc", status |-> 0, text |-> EmptyHtml]}
    \cup [kind : {"resp"}, status : {200, 404}, text : docs]

\* requests.post raises; the answer is not JSON; the JSON value is not an
\* object; the object has no "html" entry; the object has one
PostOutcomes(docs) ==
    [kind : {"exc", "notjson", "notdict", "nokey"}, html : {EmptyHtml}]
    \cup [kind : {"html"}, html : docs]

NoGet  == [kind |-> "none", status |-> 0, text |-> EmptyHtml]
NoPost == [kind |-> "none", html |-> EmptyHtml]

(***************************************************************************)
(* Inputs: sitemaps and the map service                                    *)
(***************************************************************************)
SmDoc(kind, locs) == [kind |-> kind, locs |-> locs]

SmExc      == [kind |-> "exc", status |-> 0, doc |-> SmDoc("urlset", <<>>)]
SmResp(status, doc) == [kind |-> "resp", status |-> status, doc |-> doc]

U_subSitemap == HostPlain \o <<"/", "p", ".", "x", "m", "l">>

\* what a candidate sitemap path can answer
PathOutcomes ==
    { SmExc,
      SmResp(404, SmDoc("urlset", <<>>)),
      SmResp(200, SmDoc("urlset", <<>>)),
      SmResp(200, SmDoc("urlset", <<U_home, U_about>>)),
      SmResp(200, SmDoc("urlset", <<U_contact, U_about>>)),
      SmResp(200, SmDoc("index", <<U_subSitemap>>)) }

\* what the sub-sitemap can answer
SubOutcomes ==
    { SmExc,
      SmResp(404, SmDoc("urlset", <<>>)),
      SmResp(200, SmDoc("urlset", <<U_blog, U_about>>)) }

\* the map service: the call raises, the answer has no "links", or it has
MapOutcomes ==
    { [kind |-> "exc", links |-> <<>>],
      [kind |-> "nolinks", links |-> <<>>],
      [kind |-> "links", links |-> <<U_home, U_contact>>] }

Webs ==
    [paths : [1..Len(sitemap_list) -> PathOutcomes],
     sub   : [{U_subSitemap} -> SubOutcomes],
     map   : MapOutcomes]

NoWeb == [paths |-> [i \in 1..Len(sitemap_list) |-> SmExc],
          sub   |-> [u \in {U_subSitemap} |-> SmExc],
          map   |-> [kind |-> "exc", links |-> <<>>]]

(***************************************************************************)
(* Inputs: chunks, the vector store and the language model                 *)
(***************************************************************************)
Digits == <<"1", "2", "3", "4", "5", "6", "7", "8", "9", "10", "11", "12">>

\* the i-th chunk of a site: one word
Chunk(i) == <<"c", Digits[i]>>

MaxChunks == 9

ChunkLists == { [i \in 1..n |-> Chunk(i)] : n \in 0..MaxChunks }

Reverse(lst) == [i \in 1..Len(lst) |-> lst[Len(lst) + 1 - i]]

\* what coll.query can do once the chunks are indexed: raise, or return a
\* mapping without "documents", with no result list, with an empty result
\* list, or with the n_results nearest documents in some order
QueryOutcomes(chunks) ==
    { [kind |-> "exc", has_documents |-> FALSE, documents |-> <<>>],
      [kind |-> "res", has_documents |-> FALSE, documents |-> <<>>],
      [kind |-> "res", has_documents |-> TRUE,  documents |-> <<>>],
      [kind |-> "res", has_documents |-> TRUE,  documents |-> << <<>> >>],
      [kind |-> "res", has_documents |-> TRUE,
       documents |-> << Take(chunks, N_RESULTS) >>],
      [kind |-> "res", has_documents |-> TRUE,
       documents |-> << Reverse(Take(chunks, N_RESULTS)) >>] }

\* the reply texts of the language model around a payload atom
Replies(payloads) ==
    UNION { { <<p>>,
              <<"[fence:json]", "\n", p, "\n", "[fence]">>,
              <<"Here", " ", "is", ":", " ", p>> } : p \in payloads }

\* the canonical fields of the profile (api.py:97-110)
ScalarFields == {"Business Name", "About Us", "Description",
                 "Facebook", "Instagram", "LinkedIn", "Twitter / X", "URL"}
ListFields   == {"Main Services", "Email", "Phone", "Address"}
Fields       == ScalarFields \cup ListFields

\* values a language model puts in its JSON
L_name    == Str(<<"Acme">>)
L_text    == Str(<<"Acme", " ", "builds", " ", "robots", ".">>)
L_url     == Str(<<"h", "t", "t", "p", ":", "/", "/", "s", ".", "i", "o">>)
L_fb      == Str(<<"https://", "facebook.com", "/", "acme-llm">>)
L_ig      == Str(<<"https://", "instagram.com", "/", "acme-llm">>)
L_li      == Str(<<"https://", "linkedin.com", "/", "acme-llm">>)
L_tw      == Str(<<"https://", "x.com", "/", "acme-llm">>)
L_emails  == List(<< <<"sales@acme.io">> >>)
L_phones  == List(<< <<"+1 555 0100 200">> >>)
L_addrs   == List(<< <<"1234 Main Street, Suite 500, Downtown, New York">> >>)
L_service == List(<< <<"Robots">>, <<"Repair">> >>)

J_full ==
    [f \in Fields |->
        CASE f = "Business Name" -> L_name
          [] f \in {"About Us", "Description"} -> L_text
          [] f = "Main Services" -> L_service
          [] f = "Email" -> L_emails
          [] f = "Phone" -> L_phones
          [] f = "Address" -> L_addrs
          [] f = "Facebook" -> L_fb
          [] f = "Instagram" -> L_ig
          [] f = "LinkedIn" -> L_li
          [] f = "Twitter / X" -> L_tw
          [] OTHER -> L_url]

J_blank == [f \in Fields |-> IF f \in ListFields THEN List(<<>>) ELSE Str(<<>>)]

J_nulls == [f \in Fields |-> None]

J_contacts == [f \in {"Email", "Phone", "Address"} |-> J_full[f]]

J_socials == [f \in Platforms |-> J_full[f]]

\* strings where lists are asked for and lists where strings are
J_wrongtypes ==
    [f \in Fields |->
        IF f \in ListFields THEN Str(<<"sales@acme.io">>)
        ELSE List(<< <<"Acme">> >>)]

J_mixed ==
    [f \in {"Facebook", "Instagram", "Twitter / X", "Email", "Phone", "URL"} |->
        CASE f = "Facebook" -> L_fb
          [] f = "Instagram" -> Str(<<>>)
          [] f = "Twitter / X" -> None
          [] f = "Email" -> List(<<>>)
          [] f = "Phone" -> L_phones
          [] OTHER -> Str(<<>>)]

\* the JSON documents of the model and the value json.loads gives for each
JsonTable ==
    [n \in {"{}", "{full}", "{blank}", "{nulls}", "{contacts}", "{socials}",
            "{wrongtypes}", "{mixed}", "[list]", "string", "null"} |->
        CASE n = "{}"           -> Dict(<<>>)
          [] n = "{full}"       -> Dict(J_full)
          [] n = "{blank}"      -> Dict(J_blank)
          [] n = "{nulls}"      -> Dict(J_nulls)
          [] n = "{contacts}"   -> Dict(J_contacts)
          [] n = "{socials}"    -> Dict(J_socials)
          [] n = "{wrongtypes}" -> Dict(J_wrongtypes)
          [] n = "{mixed}"      -> Dict(J_mixed)
          [] n = "[list]"       -> L_service
          [] n = "string"       -> L_name
          [] OTHER              -> None]

\* what the model can answer: a JSON document or an apology
Payloads == (DOMAIN JsonTable) \cup {"Sorry"}

(***************************************************************************)
(* Inputs of the scrape specification                                      *)
(***************************************************************************)
PageHome ==
    [len   |-> MinBodyLen + 1,
     hrefs |-> << <<"https://", "Facebook.com", "/", "Acme">>,
                  <<"https://", "twitter.com", "/", "acme">>,
                  <<"/", "a", "b", "o", "u", "t">> >>,
     text  |-> <<"Acme", " ", "builds", " ", "robots", ".", " ", "\n",
                 "Mail", " ", "info@acme.io">>]

PageContact ==
    [len   |-> 5000,
     hrefs |-> << <<"https://", "facebook.com", "/", "acme-hq">>,
                  <<"https://", "instagram.com", "/", "acme">>,
                  <<"https://", "linkedin.com", "/", "company", "/", "acme">>,
                  <<"https://", "x.com", "/", "acme-hq">> >>,
     text  |-> <<"Call", " ", "+1 555 0100 100", ".", " ",
                 "Visit", " ", "12 Main Street, Springfield, Illinois", ".",
                 " ", "Since", " ", "2017 Category Skin Care Clinical", " ",
                 "info@acme.io", " ", "hr@acme.io">>]

ScrapeDocs == {EmptyHtml, PageHome, PageContact}

\* request.url: blank, without a scheme, with a scheme and white space
ScrapeRequests ==
    { <<" ">>,
      <<"s", ".", "i", "o">>,
      <<" ">> \o U_homeSlash \o <<"\n">> }

ScrapeWebs ==
    [paths : [1..Len(sitemap_list) ->
                { SmExc,
                  SmResp(404, SmDoc("urlset", <<>>)),
                  SmResp(200, SmDoc("urlset", <<U_contact, U_about>>)) }],
     sub   : [{U_subSitemap} -> {SmExc}],
     map   : { [kind |-> "exc", links |-> <<>>],
               [kind |-> "links", links |-> <<U_home, U_contact>>] }]

NoResponse == [status |-> 0, data |-> <<>>]

(***************************************************************************)
(* The state of a function that is not running                             *)
(***************************************************************************)
SelIdle == /\ sel_pc = "idle"
           /\ sel_urls = <<>>
           /\ sel_base = <<>>
           /\ sel_pages = <<>>

ChIdle == /\ ch_pc = "idle"
          /\ ch_text = <<>>
          /\ ch_size = CHUNK_SIZE
          /\ ch_overlap = CHUNK_OVERLAP
          /\ ch_chunks = <<>>

FpIdle == /\ fp_pc = "idle"
          /\ fp_url = <<>>
          /\ fp_get = NoGet
          /\ fp_post = NoPost
          /\ fp_posts = 0
          /\ fp_result = EmptyHtml

DsIdle == /\ ds_pc = "idle"
          /\ ds_base = <<>>
          /\ ds_web = NoWeb
          /\ ds_map_invoked = FALSE
          /\ ds_tier = "none"
          /\ ds_result = <<>>

RgIdle == /\ rg_pc = "idle"
          /\ rg_args = <<>>
          /\ rg_site = <<>>
          /\ rg_chunks = <<>>
          /\ rg_b = 0
          /\ rg_retrieval = "none"
          /\ rg_context = <<>>
          /\ rg_result = None

ScIdle == /\ sc_pc = "idle"
          /\ sc_req = <<>>
          /\ site_url = <<>>
          /\ main_pages = <<>>
          /\ sc_page = 0
          /\ all_social = NoSocial
          /\ all_text = <<>>
          /\ sc_rag = None
          /\ sc_response = NoResponse

(***************************************************************************)
(* The site's collection in the vector store, and the runs that index it   *)
(***************************************************************************)
\* the processes that may run rag_extract on the same site at the same time
\* (the endpoint's workers and the command-line script share ./chroma)
MaxRuns == 2

Runs == 1..MaxRuns

\* the site all runs are about
IxSite == U_home

\* line 300: f"{site_url}_{b+i}"
ChunkId(site, k) == <<site, "_", k>>

\* the site's text at two moments: the i-th chunk before and after the site
\* changed
Versions == {"v1", "v2"}

Doc(i, ver) == <<"c", Digits[i], ver>>

\* chunk lists of no, one and two batches
IxLens == {0, 1, BATCH + 1}

IxChunkLists ==
    { [i \in 1..n |-> Doc(i, ver)] : n \in IxLens, ver \in Versions }

\* a collection that get_or_create_collection has just created
EmptyColl == [id \in {} |-> <<>>]

Min(a, b) == IF a < b THEN a ELSE b

\* line 296: chunks[b:b+BATCH]
Batch(chunks, b) == SubSeq(chunks, b + 1, Min(b + BATCH, Len(chunks)))

\* line 300: the ids of the batch that starts at b
BatchIds(site, b, batch) ==
    [i \in 1..Len(batch) |-> ChunkId(site, b + i - 1)]

\* lines 303-308: Collection.add of the vector store stores the records
\* whose id is new; a record whose id is already stored is skipped and the
\* stored document is kept (replacing is Collection.upsert, which the code
\* does not call)
CollAdd(c, ids, documents) ==
    [id \in (DOMAIN c) \cup {ids[k] : k \in DOMAIN ids} |->
        IF id \in DOMAIN c
        THEN c[id]
        ELSE documents[CHOOSE k \in DOMAIN ids : ids[k] = id]]

IxIdle == /\ coll = EmptyColl
          /\ ix_pc = [r \in Runs |-> "idle"]
          /\ ix_chunks = [r \in Runs |-> <<>>]
          /\ ix_b = [r \in Runs |-> 0]

(***************************************************************************)
(* Specification of select_main_pages                                      *)
(***************************************************************************)
InitSelect ==
    /\ FIRECRAWL_KEY = FALSE /\ chroma_client = FALSE
    /\ sel_pc = "call"
    /\ sel_urls \in DistinctSeqs(SelUrlPool, MaxUrls)
    /\ sel_base \in SelBasePool
    /\ sel_pages = <<>>
    /\ ChIdle /\ FpIdle /\ DsIdle /\ RgIdle /\ ScIdle /\ IxIdle

SelectMainPages ==
    /\ sel_pc = "call"
    /\ sel_pages' = select_main_pages(sel_urls, sel_base)
    /\ sel_pc' = "done"
    /\ UNCHANGED <<sel_urls, sel_base>>
    /\ UNCHANGED <<cfg_vars, ix_vars, ch_vars, fp_vars, ds_vars, rg_vars, sc_vars>>

NextSelect == SelectMainPages

SpecSelect == InitSelect /\ [][NextSelect]_vars

(***************************************************************************)
(* Specification of chunk_text                                             *)
(***************************************************************************)
InitChunk ==
    /\ FIRECRAWL_KEY = FALSE /\ chroma_client = FALSE
    /\ ch_pc = "call"
    /\ ch_text \in TextsUpTo(MaxTextLen)
    /\ ch_size \in 2..MaxChunkSize
    /\ ch_overlap \in 1..(ch_size - 1)
    /\ ch_chunks = <<>>
    /\ SelIdle /\ FpIdle /\ DsIdle /\ RgIdle /\ ScIdle /\ IxIdle

ChunkText ==
    /\ ch_pc = "call"
    /\ ch_chunks' = chunk_text(ch_text, ch_size, ch_overlap)
    /\ ch_pc' = "done"
    /\ UNCHANGED <<ch_text, ch_size, ch_overlap>>
    /\ UNCHANGED <<cfg_vars, ix_vars, sel_vars, fp_vars, ds_vars, rg_vars, sc_vars>>

NextChunk == ChunkText

SpecChunk == InitChunk /\ [][NextChunk]_vars

(***************************************************************************)
(* Specification of fetch_page                                             *)
(***************************************************************************)
\* tier 1: the plain GET and its try block
FetchTier1(docs) ==
    /\ fp_pc = "tier1"
    /\ \E g \in GetOutcomes(docs) :
         LET o == ExceptPass(Tier1Body(g))
         IN  /\ fp_get' = g
             /\ fp_pc' = CASE o = "return" -> "done"
                           [] o = "fall"   -> "tier2"
                           [] OTHER        -> "raised"
             /\ fp_result' = IF o = "return" THEN g.text ELSE fp_result
    /\ UNCHANGED <<fp_url, fp_post, fp_posts>>

\* tier 2: the render service, if configured, else the final return ""
FetchTier2(docs) ==
    /\ fp_pc = "tier2"
    /\ IF FIRECRAWL_KEY
       THEN \E p \in PostOutcomes(docs) :
              LET o == ExceptPass(Tier2Body(p))
              IN  /\ fp_post' = p
                  /\ fp_posts' = fp_posts + 1
                  /\ fp_pc' = IF o \in {"return", "fall"} THEN "done"
                              ELSE "raised"
                  /\ fp_result' = IF o = "return" THEN Tier2Html(p)
                                  ELSE EmptyHtml
       ELSE /\ fp_pc' = "done"
            /\ fp_result' = EmptyHtml
            /\ UNCHANGED <<fp_post, fp_posts>>
    /\ UNCHANGED <<fp_url, fp_get>>

InitFetch ==
    /\ FIRECRAWL_KEY \in BOOLEAN /\ chroma_client = FALSE
    /\ fp_pc = "tier1"
    /\ fp_url \in {U_home, U_about, U_contact}
    /\ fp_get = NoGet /\ fp_post = NoPost
    /\ fp_posts = 0
    /\ fp_result = EmptyHtml
    /\ SelIdle /\ ChIdle /\ DsIdle /\ RgIdle /\ ScIdle /\ IxIdle

FetchPageTier1 ==
    FetchTier1(FetchDocs)
    /\ UNCHANGED <<cfg_vars, ix_vars, sel_vars, ch_vars, ds_vars, rg_vars, sc_vars>>

FetchPageTier2 ==
    FetchTier2(FetchDocs)
    /\ UNCHANGED <<cfg_vars, ix_vars, sel_vars, ch_vars, ds_vars, rg_vars, sc_vars>>

NextFetch == FetchPageTier1 \/ FetchPageTier2

SpecFetch == InitFetch /\ [][NextFetch]_vars

(***************************************************************************)
(* Specification of get_site_urls                                          *)
(***************************************************************************)
\* lines 212-215: the sitemap tier
GetSiteUrlsSitemap ==
    /\ ds_pc = "sitemap"
    /\ \E s \in get_urls_from_sitemap(ds_web) :
         IF s # <<>>
         THEN /\ ds_result' = s
              /\ ds_tier' = "sitemap"
              /\ ds_pc' = "done"
         ELSE /\ ds_pc' = "map"
              /\ UNCHANGED <<ds_result, ds_tier>>
    /\ UNCHANGED <<ds_base, ds_web, ds_map_invoked>>

\* lines 217-223: the map service, then the bare base URL
GetSiteUrlsFirecrawl ==
    /\ ds_pc = "map"
    /\ ds_map_invoked' = TRUE
    /\ LET f == get_urls_from_firecrawl(FIRECRAWL_KEY, ds_web.map)
       IN  IF f # <<>>
           THEN ds_result' = f /\ ds_tier' = "map"
           ELSE ds_result' = <<ds_base>> /\ ds_tier' = "bare"
    /\ ds_pc' = "done"
    /\ UNCHANGED <<ds_base, ds_web>>

InitDiscover ==
    /\ FIRECRAWL_KEY \in BOOLEAN /\ chroma_client = FALSE
    /\ ds_pc = "sitemap"
    /\ ds_base \in {U_home, U_homeSlash}
    /\ ds_web \in Webs
    /\ ds_map_invoked = FALSE
    /\ ds_tier = "none"
    /\ ds_result = <<>>
    /\ SelIdle /\ ChIdle /\ FpIdle /\ RgIdle /\ ScIdle /\ IxIdle

DiscoverSitemap ==
    GetSiteUrlsSitemap
    /\ UNCHANGED <<cfg_vars, ix_vars, sel_vars, ch_vars, fp_vars, rg_vars, sc_vars>>

DiscoverFirecrawl ==
    GetSiteUrlsFirecrawl
    /\ UNCHANGED <<cfg_vars, ix_vars, sel_vars, ch_vars, fp_vars, rg_vars, sc_vars>>

NextDiscover == DiscoverSitemap \/ DiscoverFirecrawl

SpecDiscover == InitDiscover /\ [][NextDiscover]_vars

(***************************************************************************)
(* Specification of rag_extract                                            *)
(***************************************************************************)
\* lines 254-293 and 325-327: the collection is opened when the vector
\* store is available
RagOpenCollection ==
    /\ rg_pc = "start"
    /\ IF chroma_client
       THEN \/ /\ rg_chunks' = CleanChunks(rg_chunks)
               /\ rg_b' = 0
               /\ rg_pc' = "index"
               /\ rg_retrieval' = "indexing"
               /\ rg_context' = <<>>
            \/ /\ rg_context' = FallbackContext(rg_chunks)
               /\ rg_retrieval' = "collection_exc"
               /\ rg_pc' = "llm"
               /\ UNCHANGED <<rg_chunks, rg_b>>
       ELSE /\ rg_context' = FallbackContext(rg_chunks)
            /\ rg_retrieval' = "unavailable"
            /\ rg_pc' = "llm"
            /\ UNCHANGED <<rg_chunks, rg_b>>
    /\ UNCHANGED <<rg_args, rg_site, rg_result>>

\* lines 295-309: one batch is embedded and added, or one of the two calls
\* raises
RagIndexBatch ==
    /\ rg_pc = "index"
    /\ rg_b < Len(rg_chunks)
    /\ \E o \in {"ok", "embed_exc", "add_exc"} :
         IF o = "ok"
         THEN /\ rg_b' = rg_b + BATCH
              /\ UNCHANGED <<rg_pc, rg_retrieval, rg_context>>
         ELSE /\ rg_context' = FallbackContext(rg_chunks)
              /\ rg_retrieval' = o
              /\ rg_pc' = "llm"
              /\ UNCHANGED rg_b
    /\ UNCHANGED <<rg_args, rg_site, rg_chunks, rg_result>>

\* lines 311-324: the query
RagQuery ==
    /\ rg_pc = "index"
    /\ rg_b >= Len(rg_chunks)
    /\ \E q \in QueryOutcomes(rg_chunks) :
         IF q.kind = "exc"
         THEN /\ rg_context' = FallbackContext(rg_chunks)
              /\ rg_retrieval' = "query_exc"
         ELSE /\ rg_context' = QueryContext(q, rg_chunks)
              /\ rg_retrieval' = QueryKind(q)
    /\ rg_pc' = "llm"
    /\ UNCHANGED <<rg_args, rg_site, rg_chunks, rg_b, rg_result>>

\* lines 390-403: the call of the language model is outside any try block
RagComplete(payloads) ==
    /\ rg_pc = "llm"
    /\ \/ /\ rg_pc' = "raised"
          /\ UNCHANGED rg_result
       \/ \E content \in Replies(payloads) :
            /\ rg_result' = ParseReply(content, JsonTable)
            /\ rg_pc' = "done"
    /\ UNCHANGED <<rg_args, rg_site, rg_chunks, rg_b, rg_retrieval, rg_context>>

InitRag ==
    /\ FIRECRAWL_KEY = FALSE /\ chroma_client \in BOOLEAN
    /\ rg_pc = "start"
    /\ rg_args \in ChunkLists
    /\ rg_site \in {U_home, U_kwHome}
    /\ rg_chunks = rg_args
    /\ rg_b = 0
    /\ rg_retrieval = "none"
    /\ rg_context = <<>>
    /\ rg_result = None
    /\ SelIdle /\ ChIdle /\ FpIdle /\ DsIdle /\ ScIdle /\ IxIdle

RagExtractOpen ==
    RagOpenCollection
    /\ UNCHANGED <<cfg_vars, ix_vars, sel_vars, ch_vars, fp_vars, ds_vars, sc_vars>>

RagExtractIndex ==
    RagIndexBatch
    /\ UNCHANGED <<cfg_vars, ix_vars, sel_vars, ch_vars, fp_vars, ds_vars, sc_vars>>

RagExtractQuery ==
    RagQuery
    /\ UNCHANGED <<cfg_vars, ix_vars, sel_vars, ch_vars, fp_vars, ds_vars, sc_vars>>

RagExtractComplete ==
    RagComplete(Payloads)
    /\ UNCHANGED <<cfg_vars, ix_vars, sel_vars, ch_vars, fp_vars, ds_vars, sc_vars>>

NextRag ==
    RagExtractOpen \/ RagExtractIndex \/ RagExtractQuery \/ RagExtractComplete

SpecRag == InitRag /\ [][NextRag]_vars

(***************************************************************************)
(* Specification of scrape (api.py:35-122): the endpoint calls the         *)
(* functions above; their actions run while scrape waits for them.         *)
(***************************************************************************)
\* lines 37-46: strip, reject a blank URL with 400, default the scheme,
\* call get_site_urls
ScrapeBegin ==
    /\ sc_pc = "start"
    /\ LET u == Strip(sc_req)
       IN  IF u = <<>>
           THEN /\ site_url' = u
                /\ sc_response' = [status |-> 400, data |-> <<>>]
                /\ sc_pc' = "done"
                /\ UNCHANGED ds_vars
           ELSE /\ site_url' = NormalizeUrl(u)
                /\ sc_pc' = "discover"
                /\ ds_pc' = "sitemap"
                /\ ds_base' = NormalizeUrl(u)
                /\ ds_web' \in ScrapeWebs
                /\ UNCHANGED <<ds_map_invoked, ds_tier, ds_result>>
                /\ UNCHANGED sc_response
    /\ UNCHANGED <<sc_req, main_pages, sc_page, all_social, all_text, sc_rag>>
    /\ UNCHANGED <<cfg_vars, ix_vars, sel_vars, ch_vars, fp_vars, rg_vars>>

\* lines 46-55: get_site_urls returned; select_main_pages
ScrapeSelect ==
    /\ sc_pc = "discover"
    /\ ds_pc = "done"
    /\ main_pages' = select_main_pages(ds_result, site_url)
    /\ all_text' = <<>>
    /\ all_social' = NoSocial
    /\ sc_page' = 1
    /\ sc_pc' = "pages"
    /\ ds_pc' = "idle" /\ ds_base' = <<>> /\ ds_web' = NoWeb
    /\ ds_map_invoked' = FALSE /\ ds_tier' = "none" /\ ds_result' = <<>>
    /\ UNCHANGED <<sc_req, site_url, sc_rag, sc_response>>
    /\ UNCHANGED <<cfg_vars, ix_vars, sel_vars, ch_vars, fp_vars, rg_vars>>

\* lines 58-59: the next page is fetched
ScrapeFetchCall ==
    /\ sc_pc = "pages"
    /\ fp_pc = "idle"
    /\ sc_page <= Len(main_pages)
    /\ fp_pc' = "tier1"
    /\ fp_url' = main_pages[sc_page]
    /\ UNCHANGED <<fp_get, fp_post, fp_posts, fp_result>>
    /\ UNCHANGED <<cfg_vars, ix_vars, sel_vars, ch_vars, ds_vars, rg_vars, sc_vars>>

ScrapeFetchTier1 ==
    /\ sc_pc = "pages"
    /\ FetchTier1(ScrapeDocs)
    /\ UNCHANGED <<cfg_vars, ix_vars, sel_vars, ch_vars, ds_vars, rg_vars, sc_vars>>

ScrapeFetchTier2 ==
    /\ sc_pc = "pages"
    /\ FetchTier2(ScrapeDocs)
    /\ UNCHANGED <<cfg_vars, ix_vars, sel_vars, ch_vars, ds_vars, rg_vars, sc_vars>>

\* lines 61-70: the links and the text of the fetched page are collected
ScrapePageDone ==
    /\ sc_pc = "pages"
    /\ fp_pc = "done"
    /\ all_social' = MergePageSocial(all_social,
                                     extract_social_links_from_html(fp_result))
    /\ all_text' = all_text \o <<" ">> \o clean_text(fp_result.text)
    /\ sc_page' = sc_page + 1
    /\ fp_pc' = "idle" /\ fp_url' = <<>> /\ fp_get' = NoGet /\ fp_post' = NoPost
    /\ fp_posts' = 0 /\ fp_result' = EmptyHtml
    /\ UNCHANGED <<sc_pc, sc_req, site_url, main_pages, sc_rag, sc_response>>
    /\ UNCHANGED <<cfg_vars, ix_vars, sel_vars, ch_vars, ds_vars, rg_vars>>

\* lines 72-79: the text is cleaned and chunked, rag_extract is called
ScrapeCallRag ==
    /\ sc_pc = "pages"
    /\ fp_pc = "idle"
    /\ sc_page > Len(main_pages)
    /\ LET text   == clean_text(all_text)
           chunks == chunk_text(text, CHUNK_SIZE, CHUNK_OVERLAP)
       IN  /\ all_text' = text
           /\ rg_args' = chunks
           /\ rg_chunks' = chunks
    /\ rg_site' = site_url
    /\ rg_pc' = "start"
    /\ sc_pc' = "rag"
    /\ UNCHANGED <<rg_b, rg_retrieval, rg_context, rg_result>>
    /\ UNCHANGED <<sc_req, site_url, main_pages, sc_page, all_social, sc_rag,
                   sc_response>>
    /\ UNCHANGED <<cfg_vars, ix_vars, sel_vars, ch_vars, fp_vars, ds_vars>>

\* lines 79-119: rag_extract returned.  data.get raises AttributeError when
\* the JSON value is not an object, and the except clause answers 500.
ScrapeMerge ==
    /\ sc_pc = "rag"
    /\ rg_pc = "done"
    /\ sc_rag' = rg_result
    /\ IF rg_result.t # "dict"
       THEN sc_response' = [status |-> 500, data |-> <<>>]
       ELSE \E em \in ListsOfSet(extract_all_emails(all_text)),
               ph \in ListsOfSet(extract_all_phones(all_text)),
               ad \in ListsOfSet(extract_all_addresses(all_text)) :
              sc_response' =
                  [status |-> 200,
                   data   |-> MergeProfile(rg_result.v, em, ph, ad,
                                           all_social, site_url)]
    /\ sc_pc' = "done"
    /\ rg_pc' = "idle" /\ rg_args' = <<>> /\ rg_site' = <<>> /\ rg_chunks' = <<>>
    /\ rg_b' = 0 /\ rg_retrieval' = "none" /\ rg_context' = <<>>
    /\ rg_result' = None
    /\ UNCHANGED <<sc_req, site_url, main_pages, sc_page, all_social, all_text>>
    /\ UNCHANGED <<cfg_vars, ix_vars, sel_vars, ch_vars, fp_vars, ds_vars>>

\* lines 121-122: the exception of the language-model call reaches the
\* except clause of scrape, which answers 500
ScrapeRagRaised ==
    /\ sc_pc = "rag"
    /\ rg_pc = "raised"
    /\ sc_response' = [status |-> 500, data |-> <<>>]
    /\ sc_pc' = "done"
    /\ rg_pc' = "idle" /\ rg_args' = <<>> /\ rg_site' = <<>> /\ rg_chunks' = <<>>
    /\ rg_b' = 0 /\ rg_retrieval' = "none" /\ rg_context' = <<>>
    /\ rg_result' = None
    /\ UNCHANGED <<sc_req, site_url, main_pages, sc_page, all_social, all_text,
                   sc_rag>>
    /\ UNCHANGED <<cfg_vars, ix_vars, sel_vars, ch_vars, fp_vars, ds_vars>>

InitScrape ==
    /\ FIRECRAWL_KEY \in BOOLEAN /\ chroma_client \in BOOLEAN
    /\ sc_pc = "start"
    /\ sc_req \in ScrapeRequests
    /\ site_url = <<>>
    /\ main_pages = <<>>
    /\ sc_page = 0
    /\ all_social = NoSocial
    /\ all_text = <<>>
    /\ sc_rag = None
    /\ sc_response = NoResponse
    /\ SelIdle /\ ChIdle /\ FpIdle /\ DsIdle /\ RgIdle /\ IxIdle

NextScrape ==
    \/ ScrapeBegin
    \/ DiscoverSitemap
    \/ DiscoverFirecrawl
    \/ ScrapeSelect
    \/ ScrapeFetchCall
    \/ ScrapeFetchTier1
    \/ ScrapeFetchTier2
    \/ ScrapePageDone
    \/ ScrapeCallRag
    \/ RagExtractOpen
    \/ RagExtractIndex
    \/ RagExtractQuery
    \/ RagExtractComplete
    \/ ScrapeMerge
    \/ ScrapeRagRaised

SpecScrape == InitScrape /\ [][NextScrape]_vars

(***************************************************************************)
(* Specification of the indexing step of rag_extract (lines 254-311) run   *)
(* by several processes on the same site, one after the other or           *)
(* interleaved at the calls of the vector store                            *)
(***************************************************************************)
\* line 249: a process calls rag_extract(chunks, site_url), for the first
\* time or again after its previous call has left the indexing step
IndexCall(r) ==
    /\ ix_pc[r] \in {"idle", "query", "fallback"}
    /\ \E chunks \in IxChunkLists :
         ix_chunks' = [ix_chunks EXCEPT ![r] = chunks]
    /\ ix_b' = [ix_b EXCEPT ![r] = 0]
    /\ ix_pc' = [ix_pc EXCEPT ![r] = "start"]
    /\ UNCHANGED coll

\* lines 254-293 and 325-327: the collection is opened (created when it
\* does not exist) and the chunks are cleaned, or the fallback is taken
IndexOpen(r) ==
    /\ ix_pc[r] = "start"
    /\ IF chroma_client
       THEN \/ /\ ix_chunks' = [ix_chunks EXCEPT ![r] = CleanChunks(@)]
               /\ ix_pc' = [ix_pc EXCEPT ![r] = "index"]
            \/ /\ ix_pc' = [ix_pc EXCEPT ![r] = "fallback"]
               /\ UNCHANGED ix_chunks
       ELSE /\ ix_pc' = [ix_pc EXCEPT ![r] = "fallback"]
            /\ UNCHANGED ix_chunks
    /\ UNCHANGED <<coll, ix_b>>

\* lines 295-309: one batch is embedded and added under its ids, or one of
\* the two calls raises and the except clause takes the fallback
IndexBatch(r) ==
    /\ ix_pc[r] = "index"
    /\ ix_b[r] < Len(ix_chunks[r])
    /\ LET batch == Batch(ix_chunks[r], ix_b[r])
           ids   == BatchIds(IxSite, ix_b[r], batch)
       IN  \E o \in {"ok", "embed_exc", "add_exc"} :
             IF o = "ok"
             THEN /\ coll' = CollAdd(coll, ids, batch)
                  /\ ix_b' = [ix_b EXCEPT ![r] = @ + BATCH]
                  /\ UNCHANGED ix_pc
             ELSE /\ ix_pc' = [ix_pc EXCEPT ![r] = "fallback"]
                  /\ UNCHANGED <<coll, ix_b>>
    /\ UNCHANGED ix_chunks

\* line 311: the loop is over, the run goes on to the query
IndexFinished(r) ==
    /\ ix_pc[r] = "index"
    /\ ix_b[r] >= Len(ix_chunks[r])
    /\ ix_pc' = [ix_pc EXCEPT ![r] = "query"]
    /\ UNCHANGED <<coll, ix_chunks, ix_b>>

InitIndex ==
    /\ FIRECRAWL_KEY = FALSE /\ chroma_client \in BOOLEAN
    /\ IxIdle
    /\ SelIdle /\ ChIdle /\ FpIdle /\ DsIdle /\ RgIdle /\ ScIdle

RunIndexCall ==
    (\E r \in Runs : IndexCall(r))
    /\ UNCHANGED <<cfg_vars, sel_vars, ch_vars, fp_vars, ds_vars, rg_vars,
                   sc_vars>>

RunIndexOpen ==
    (\E r \in Runs : IndexOpen(r))
    /\ UNCHANGED <<cfg_vars, sel_vars, ch_vars, fp_vars, ds_vars, rg_vars,
                   sc_vars>>

RunIndexBatch ==
    (\E r \in Runs : IndexBatch(r))
    /\ UNCHANGED <<cfg_vars, sel_vars, ch_vars, fp_vars, ds_vars, rg_vars,
                   sc_vars>>

RunIndexFinished ==
    (\E r \in Runs : IndexFinished(r))
    /\ UNCHANGED <<cfg_vars, sel_vars, ch_vars, fp_vars, ds_vars, rg_vars,
                   sc_vars>>

NextIndex ==
    RunIndexCall \/ RunIndexOpen \/ RunIndexBatch \/ RunIndexFinished

SpecIndex == InitIndex /\ [][NextIndex]_vars

(***************************************************************************)
(* Claims about select_main_pages (checked under SpecSelect)               *)
(***************************************************************************)
NoDup(lst) == \A i, j \in 1..Len(lst) : i # j => lst[i] # lst[j]

\* the first URL of urls that contains kw (case-insensitively) and is not
\* in excluded, as a set of at most one element
FirstMatch(urls, kw, excluded) ==
    LET hits == { i \in 1..Len(urls) :
                    /\ Contains(Lower(urls[i]), kw)
                    /\ urls[i] \notin excluded }
    IN  { urls[i] : i \in { h \in hits : \A g \in hits : h <= g } }

SelHome    == RStripSlash(sel_base)
SelAbout   == FirstMatch(sel_urls, KwAbout, {SelHome})
SelContact == FirstMatch(sel_urls, KwContact, {SelHome} \cup SelAbout)

\* C6: select_main_pages returns at most 3 pages, and the home page is
\* always in the result, at index 0 of the Python list.
C6_HomeFirstAtMostThree ==
    sel_pc = "done" =>
        /\ Len(sel_pages) <= 3
        /\ Len(sel_pages) >= 1
        /\ sel_pages[1] = SelHome

\* C7: the result of select_main_pages never holds the same URL twice and
\* holds at most one page per role: the home page, the first URL in
\* discovery order that contains "about", the first one that contains
\* "contact".
C7_OnePagePerRole ==
    sel_pc = "done" =>
        /\ NoDup(sel_pages)
        /\ \A i \in 1..Len(sel_pages) :
             sel_pages[i] \in ({SelHome} \cup SelAbout \cup SelContact)

(***************************************************************************)
(* Claims about chunk_text (checked under SpecChunk)                       *)
(***************************************************************************)
\* C9: every chunk after the first begins with the last `overlap` words of
\* the chunk before it.
C9_OverlapCarried ==
    ch_pc = "done" =>
        \A k \in 2..Len(ch_chunks) :
            LET tail == TakeLast(SplitWords(ch_chunks[k - 1]), ch_overlap)
            IN  Take(SplitWords(ch_chunks[k]), Len(tail)) = tail

(***************************************************************************)
(* Claims about fetch_page (checked under SpecFetch)                       *)
(***************************************************************************)
\* C8: fetch_page never raises.  It returns the body of the plain GET, and
\* makes no call to the render service, when that response has status 200
\* and more than 200 characters; otherwise, if the render service is
\* configured, it calls it exactly once and returns the HTML it gave (the
\* empty string when the call failed or gave none); otherwise it returns
\* the empty string.
C8_FetchTiers ==
    /\ fp_pc # "raised"
    /\ fp_posts <= 1
    /\ fp_pc = "done" =>
         IF fp_get.kind = "resp" /\ fp_get.status = 200 /\ fp_get.text.len > 200
         THEN fp_result = fp_get.text /\ fp_posts = 0
         ELSE IF FIRECRAWL_KEY
              THEN /\ fp_posts = 1
                   /\ fp_result = (IF fp_post.kind = "html" THEN fp_post.html
                                   ELSE EmptyHtml)
              ELSE fp_posts = 0 /\ fp_result = EmptyHtml

\* a 200 response of exactly 200 characters was rejected and the render
\* service supplied the page
C8_Witness_ShellEscalated ==
    /\ fp_pc = "done"
    /\ fp_get.kind = "resp" /\ fp_get.status = 200 /\ fp_get.text.len = 200
    /\ fp_posts = 1
    /\ fp_post.kind = "html" /\ fp_post.html.len > 200
    /\ fp_result = fp_post.html

(***************************************************************************)
(* Claims about get_site_urls (checked under SpecDiscover)                 *)
(***************************************************************************)
\* a candidate path that answers 200
SmReachable(r) == r.kind = "resp" /\ r.status = 200

\* the <loc> URLs a reachable sitemap gives: its own and, for an index,
\* those of the sub-sitemaps that answer 200
SmLocs(r, web) ==
    SetOf(r.doc.locs)
    \cup (IF r.doc.kind = "index"
          THEN UNION { SetOf(web.sub[u].doc.locs) :
                         u \in { v \in SetOf(r.doc.locs) :
                                   SmReachable(web.sub[v]) } }
          ELSE {})

ReachableLocs(web) ==
    UNION { SmLocs(web.paths[i], web) :
              i \in { j \in 1..Len(sitemap_list) : SmReachable(web.paths[j]) } }

\* C5: whenever at least one candidate sitemap path is reachable and lists
\* URLs, get_site_urls returns the de-duplicated union of the <loc> URLs of
\* the reachable sitemaps and invokes no later tier, whatever the other
\* paths do (non-200 or network error).
C5_SitemapFirstTolerant ==
    (ds_pc = "done" /\ ReachableLocs(ds_web) # {}) =>
        /\ SetOf(ds_result) = ReachableLocs(ds_web)
        /\ NoDup(ds_result)
        /\ ~ds_map_invoked
        /\ ds_tier = "sitemap"

(***************************************************************************)
(* Claims about rag_extract (checked under SpecRag)                        *)
(***************************************************************************)
\* the ways the retrieval step ends without a document
NoDocumentKinds ==
    {"unavailable", "collection_exc", "embed_exc", "add_exc", "query_exc",
     "no_documents_key", "documents_empty", "empty_result"}

\* C10: whenever the retrieval step yields no documents (store unavailable,
\* an indexing or query call fails, no 'documents' entry, or an empty
\* result list for the query), the context given to the language model is
\* the first 6 chunks joined in their original order, and is empty only if
\* there are no chunks.
C10_FallbackContext ==
    (rg_pc \in {"llm", "done", "raised"} /\ rg_retrieval \in NoDocumentKinds) =>
        /\ rg_context = JoinSp(Take(rg_args, 6))
        /\ (rg_context = <<>> => rg_args = <<>>)

(***************************************************************************)
(* Claims about scrape (checked under SpecScrape)                          *)
(***************************************************************************)
\* the request was answered with a profile
Answered == sc_pc = "done" /\ sc_response.status = 200

\* the value the retrieval extractor gave for field f
RagValue(f) == Get(sc_rag.v, f)

\* what the fallback extractor finds for a list field
FallbackSet(f) ==
    CASE f = "Email" -> extract_all_emails(all_text)
      [] f = "Phone" -> extract_all_phones(all_text)
      [] OTHER       -> extract_all_addresses(all_text)

\* C1: for every non-blank input URL and every combination of dependency
\* outcomes, scrape answers with a profile in which every canonical field
\* is present with a value of its type (string for scalars, list for
\* sequences); no dependency failure reaches the caller as an error.
C1_SchemaCompleteNoError ==
    (sc_pc = "done" /\ Strip(sc_req) # <<>>) =>
        /\ sc_response.status = 200
        /\ \A f \in {"Business Name", "About Us", "Description", "Facebook",
                     "Instagram", "LinkedIn", "Twitter / X", "URL"} :
             f \in DOMAIN sc_response.data /\ sc_response.data[f].t = "str"
        /\ \A f \in {"Main Services", "Email", "Phone", "Address"} :
             f \in DOMAIN sc_response.data /\ sc_response.data[f].t = "list"

\* C2: for Email, Phone, Address and the four social links: if the
\* fallback value is non-empty and the retrieval value of the field is
\* empty or absent, the final profile carries the fallback value.
C2_FallbackKept ==
    Answered =>
        /\ \A f \in {"Email", "Phone", "Address"} :
             (FallbackSet(f) # {} /\ ~Truthy(RagValue(f))) =>
                 /\ sc_response.data[f].t = "list"
                 /\ SetOf(sc_response.data[f].v) = FallbackSet(f)
                 /\ Len(sc_response.data[f].v) = Cardinality(FallbackSet(f))
        /\ \A p \in {"Facebook", "Instagram", "LinkedIn", "Twitter / X"} :
             (all_social[p] # <<>> /\ ~Truthy(RagValue(p))) =>
                 sc_response.data[p] = Str(all_social[p])

\* the language model gave an empty Email list and an empty Instagram
\* string, the pages gave an address and a link, and the profile has them
C2_Witness_EmptyRetrievalFilled ==
    /\ Answered
    /\ RagValue("Email") = List(<<>>)
    /\ extract_all_emails(all_text) # {}
    /\ sc_response.data["Email"].v # <<>>
    /\ RagValue("Instagram") = Str(<<>>)
    /\ all_social["Instagram"] # <<>>
    /\ sc_response.data["Instagram"] = Str(all_social["Instagram"])

\* C3 as stated: per platform, the retrieval value wins when it is
\* non-empty; only otherwise the value scraped from the page anchors is
\* used; otherwise the empty string.
C3_RetrievalPrecedence ==
    Answered =>
        \A p \in {"Facebook", "Instagram", "LinkedIn", "Twitter / X"} :
            sc_response.data[p] =
                IF Truthy(RagValue(p)) THEN RagValue(p)
                ELSE IF all_social[p] # <<>> THEN Str(all_social[p])
                ELSE Str(<<>>)

\* C3 as amended: per platform, the value scraped from the page anchors
\* wins when it is non-empty; only otherwise the retrieval value is used
\* if it is non-empty; otherwise the empty string.
C3_AnchorPrecedence ==
    Answered =>
        \A p \in {"Facebook", "Instagram", "LinkedIn", "Twitter / X"} :
            sc_response.data[p] =
                IF all_social[p] # <<>> THEN Str(all_social[p])
                ELSE IF Truthy(RagValue(p)) THEN RagValue(p)
                ELSE Str(<<>>)

\* both producers gave a different non-empty link for a platform and the
\* profile has the one from the anchors
C3_Witness_BothPresent ==
    /\ Answered
    /\ \E p \in {"Facebook", "Instagram", "LinkedIn", "Twitter / X"} :
         /\ Truthy(RagValue(p))
         /\ all_social[p] # <<>>
         /\ RagValue(p) # Str(all_social[p])
         /\ sc_response.data[p] = Str(all_social[p])

\* C4: in every profile returned by scrape, the URL field equals the
\* normalized input URL, whatever the extractors produced for that field.
C4_UrlStamped ==
    Answered =>
        sc_response.data["URL"] = Str(NormalizeUrl(Strip(sc_req)))

(***************************************************************************)
(* Claims about the indexing of chunks (checked under SpecIndex)           *)
(***************************************************************************)
\* the positions (from 1) of the chunks that run r adds in this step
AddedNow(r) ==
    IF ix_b'[r] > ix_b[r]
    THEN (ix_b[r] + 1)..Min(ix_b'[r], Len(ix_chunks[r]))
    ELSE {}

\* the step rewrites what is already stored: every chunk it adds is stored
\* under its id with the same content
RepeatsStored(r) ==
    \A i \in AddedNow(r) :
        /\ ChunkId(IxSite, i - 1) \in DOMAIN coll
        /\ coll[ChunkId(IxSite, i - 1)] = ix_chunks[r][i]

\* C11: chunk indexing is an idempotent overwrite keyed by chunk id (site
\* URL + chunk index), for any sequence or interleaving of runs on the same
\* site: when a run has added a batch, every id of the batch holds the
\* content that run supplied, also when the id was already stored; and a
\* batch that repeats what is stored leaves the collection as it was.
C11_IdempotentOverwrite ==
    [][\A r \in Runs :
         /\ \A i \in AddedNow(r) :
               /\ ChunkId(IxSite, i - 1) \in DOMAIN coll'
               /\ coll'[ChunkId(IxSite, i - 1)] = ix_chunks[r][i]
         /\ (AddedNow(r) # {} /\ RepeatsStored(r)) => coll' = coll]_vars

====
